---- MODULE Spec2Model ----
(***************************************************************************)
(* The macro expansion engine of lacc's preprocessor (macro.c): the macro  *)
(* table (define, undef, definition), the token array pool, the argument   *)
(* reader, the stringify and paste operators, the Substituter              *)
(* (expand_macro) and the Rewriter (expand).                               *)
(*                                                                         *)
(* The recursion expand -> expand_macro -> expand is modelled with an      *)
(* explicit call stack; every action is one step of the C code.            *)
(***************************************************************************)
EXTENDS Integers, Sequences, FiniteSets, TLC

VARIABLES
    table,          \* macro_hash_table: name -> struct macro
    arrays,         \* the pool "arrays": ids of the recycled token arrays
    nalloc,         \* number of token arrays created so far (their ids)
    expand_stack,   \* names of the macros being expanded
    stack,          \* call stack: frames of expand and expand_macro
    L,              \* the caller's token list handed to expand
    status,         \* "idle", "running", "fatal" (exit(1)), "abort", "ub"
    err,            \* which fatal error ended the process
    last,           \* ghost: the last call made by the driver
    calls,          \* number of driver calls made so far
    oob,            \* ghost: a read outside an array happened in this expand
    ndebug          \* "unknown", or "yes" once a failed assert was passed

vars == <<table, arrays, nalloc, expand_stack, stack, L, status, err, last,
          calls, oob, ndebug>>

(* ------------------------------ bounds --------------------------------- *)

\* Number of driver calls (define, undef, expand) in one run.
MaxCalls == 3

\* Depth of the call stack a step may still push onto.
MaxDepth == 8

(* ------------------------------ tokens --------------------------------- *)

OBJECT_LIKE == "OBJECT_LIKE"
FUNCTION_LIKE == "FUNCTION_LIKE"

\* A struct token. d is the spelling (d.string), n the number of a PARAM
\* (d.number.val.i). painted is a ghost mark: the token was copied from a
\* replacement list while the macro it names was being expanded.
Tok(kind, d, n, ws) ==
    [token |-> kind, d |-> d, n |-> n, leading_whitespace |-> ws,
     painted |-> FALSE]

Ident(s) == Tok("IDENTIFIER", s, 0, 0)
IdentW(s) == Tok("IDENTIFIER", s, 0, 1)
Num(s) == Tok("PREP_NUMBER", s, 0, 0)
Punct(c) == Tok(c, c, 0, 0)
Param(k) == Tok("PARAM", "", k, 0)
ParamW(k) == Tok("PARAM", "", k, 1)
LP == Punct("(")
RP == Punct(")")
Comma == Punct(",")
Hash == Punct("#")
TokenPaste == Tok("TOKEN_PASTE", "##", 0, 0)
Newline == Tok("NEWLINE", "", 0, 0)
EmptyArg == Tok("EMPTY_ARG", "", 0, 0)

tokstr(t) == t.d

Min(a, b) == IF a < b THEN a ELSE b

(* ------------------------- comparison utilities ------------------------ *)

\* A comparison of the token kinds alone.
tok_cmp_kind(a, b) ==
    IF a.token # b.token THEN 1 ELSE 0

\* tok_cmp: 0 when equal. Leading whitespace is not compared.
tok_cmp(a, b) ==
    IF a.token # b.token THEN 1
    ELSE IF a.token = "PARAM" THEN (IF a.n # b.n THEN 1 ELSE 0)
    ELSE IF a.token = "NUMBER" THEN (IF a.n # b.n THEN 1 ELSE 0)
    ELSE (IF a.d # b.d THEN 1 ELSE 0)

macrocmp(a, b) ==
    IF (a.type # b.type) \/ (a.params # b.params) THEN 1
    ELSE IF a.name # b.name THEN 1
    ELSE IF Len(a.replacement.data) # Len(b.replacement.data) THEN 1
    ELSE IF \E i \in 1..Len(a.replacement.data) :
              tok_cmp(a.replacement.data[i], b.replacement.data[i]) # 0
         THEN 1
    ELSE 0

has_stringify_replacement(repl) ==
    /\ Len(repl) > 1
    /\ \E i \in 1..(Len(repl) - 1) :
          repl[i].token = "#" /\ repl[i + 1].token = "PARAM"

(* ------------------------------ the pool ------------------------------- *)

\* get_token_array: the array popped from the pool, cleared, or a new one.
\* r.id is the array, r.arrays and r.nalloc the pool and the counter after.
get_token_array(pl, na) ==
    IF Len(pl) > 0
    THEN [id |-> pl[Len(pl)], arrays |-> SubSeq(pl, 1, Len(pl) - 1),
          nalloc |-> na]
    ELSE [id |-> na + 1, arrays |-> pl, nalloc |-> na + 1]

\* cnt successive get_token_array calls: the ids in call order.
RECURSIVE GetArrays(_, _, _)
GetArrays(pl, na, cnt) ==
    IF cnt = 0 THEN [ids |-> <<>>, arrays |-> pl, nalloc |-> na]
    ELSE LET g == get_token_array(pl, na)
             r == GetArrays(g.arrays, g.nalloc, cnt - 1)
         IN  [ids |-> <<g.id>> \o r.ids, arrays |-> r.arrays,
              nalloc |-> r.nalloc]

release_token_array(pl, id) == Append(pl, id)

RECURSIVE ReleaseAll(_, _)
ReleaseAll(pl, ids) ==
    IF ids = <<>> THEN pl
    ELSE ReleaseAll(release_token_array(pl, Head(ids)), Tail(ids))

(* ----------------------------- stringify ------------------------------- *)

RECURSIVE StringifyJoin(_, _, _)
StringifyJoin(list, i, buf) ==
    IF i > Len(list) THEN buf
    ELSE IF list[i].token = "NEWLINE" THEN buf
    ELSE StringifyJoin(list, i + 1,
            buf \o (IF list[i].leading_whitespace > 0 /\ i > 1
                    THEN " " ELSE "")
                \o tokstr(list[i]))

stringify(list) ==
    LET s == IF Len(list) = 0 \/ list[1].token = "EMPTY_ARG" THEN ""
             ELSE IF Len(list) = 1 THEN tokstr(list[1])
             ELSE StringifyJoin(list, 1, "")
    IN  Tok("STRING", s, 0, 0)

(* ------------------------------- paste --------------------------------- *)

\* The tokenizer on the concatenation of two spellings: the single token it
\* makes, or ok = FALSE when the bytes are not exactly one token.
tokenize(l, r) ==
    IF l.token = "IDENTIFIER" /\ r.token \in {"IDENTIFIER", "PREP_NUMBER"}
    THEN [ok |-> TRUE, tok |-> Tok("IDENTIFIER", l.d \o r.d, 0, 0)]
    ELSE IF l.token = "PREP_NUMBER"
            /\ r.token \in {"IDENTIFIER", "PREP_NUMBER"}
    THEN [ok |-> TRUE, tok |-> Tok("PREP_NUMBER", l.d \o r.d, 0, 0)]
    ELSE IF l.token = "#" /\ r.token = "#"
    THEN [ok |-> TRUE, tok |-> TokenPaste]
    ELSE [ok |-> FALSE, tok |-> l]

\* paste: ok = FALSE is the fatal "Invalid token resulting from pasting".
paste(left, right) ==
    IF left.token = "EMPTY_ARG" THEN [ok |-> TRUE, tok |-> right]
    ELSE IF right.token = "EMPTY_ARG" THEN [ok |-> TRUE, tok |-> left]
    ELSE LET res == tokenize(left, right)
         IN  [ok |-> res.ok,
              tok |-> [res.tok EXCEPT
                         !.leading_whitespace = left.leading_whitespace]]

\* unsigned i, j, len: a value is kept as its residue modulo 2^32 in the
\* range -2^31 .. 2^31 - 1, so that -1 stands for UINT_MAX.
ULess(a, b) ==
    IF a < 0 THEN (b < 0 /\ a < b) ELSE (b < 0 \/ a < b)

\* The for loop of expand_paste_operators from (i, j) on. i and j are the
\* C indices; nd says whether asserts are compiled out. The result is
\*   st: "ok", "fatal" (paste failed), "abort" (assert), "ub" (list[i] is
\*       read with i = UINT_MAX),
\*   list: the list, cut to i + 1 when st = "ok",
\*   tripped: assert(i < len) was false in some iteration.
RECURSIVE PasteLoop(_, _, _, _, _, _)
PasteLoop(list, i, j, len, nd, tripped) ==
    IF ~(j < len)
    THEN [st |-> "ok", list |-> SubSeq(list, 1, i + 1), tripped |-> tripped]
    ELSE IF ~ULess(i, len) /\ ~nd
    THEN [st |-> "abort", list |-> list, tripped |-> TRUE]
    ELSE
      LET trip == tripped \/ ~ULess(i, len)
          t == list[j + 1]
      IN  IF t.token = "TOKEN_PASTE"
          THEN IF i < 0
               THEN [st |-> "ub", list |-> list, tripped |-> trip]
               ELSE LET l == list[i + 1]
                        r == list[j + 2]
                    IN  IF l.token = "EMPTY_ARG" /\ r.token = "EMPTY_ARG"
                        THEN PasteLoop(list, i - 1, j + 2, len, nd, trip)
                        ELSE LET p == paste(l, r)
                             IN  IF ~p.ok
                                 THEN [st |-> "fatal", list |-> list,
                                       tripped |-> trip]
                                 ELSE PasteLoop(
                                        [list EXCEPT ![i + 1] = p.tok],
                                        i, j + 2, len, nd, trip)
          ELSE IF t.token # "EMPTY_ARG"
          THEN IF ULess(i, j - 1)
               THEN PasteLoop([list EXCEPT ![i + 2] = list[j + 1]],
                              i + 1, j + 1, len, nd, trip)
               ELSE PasteLoop(list, i + 1, j + 1, len, nd, trip)
          ELSE PasteLoop(list, i, j + 1, len, nd, trip)

expand_paste_operators(list, nd) ==
    LET len == Len(list)
    IN  IF len > 0 /\ list[1].token = "TOKEN_PASTE"
        THEN [st |-> "fatal", list |-> list, tripped |-> FALSE]
        ELSE IF len > 2
        THEN IF list[len].token = "TOKEN_PASTE"
             THEN [st |-> "fatal", list |-> list, tripped |-> FALSE]
             ELSE PasteLoop(list, 0, 1, len, nd, FALSE)
        ELSE [st |-> "ok", list |-> list, tripped |-> FALSE]

(* --------------------------- argument reader --------------------------- *)

\* A token read through the pointer "list": pos is the C index into the
\* array toks. Reading at or after the array's length is out of bounds.
InBounds(toks, pos) == pos < Len(toks)
At(toks, pos) == toks[pos + 1]

\* skip: the position after the expected token; st "fatal" on another
\* token, "oob" when the token read lies outside the array.
skip(toks, pos, token) ==
    IF ~InBounds(toks, pos) THEN [st |-> "oob", pos |-> pos]
    ELSE IF At(toks, pos).token # token THEN [st |-> "fatal", pos |-> pos]
    ELSE [st |-> "ok", pos |-> pos + 1]

\* The while loop of read_arg.
RECURSIVE ReadArgLoop(_, _, _, _)
ReadArgLoop(toks, pos, nesting, arg) ==
    IF ~InBounds(toks, pos) THEN [st |-> "oob", arg |-> arg, pos |-> pos]
    ELSE
      LET t == At(toks, pos)
      IN  IF nesting # 0 \/ (t.token # "," /\ t.token # ")")
          THEN IF t.token = "NEWLINE"
               THEN [st |-> "fatal", arg |-> arg, pos |-> pos]
               ELSE IF t.token = ")" /\ nesting - 1 < 0
               THEN [st |-> "fatal", arg |-> arg, pos |-> pos]
               ELSE ReadArgLoop(toks, pos + 1,
                        IF t.token = "(" THEN nesting + 1
                        ELSE IF t.token = ")" THEN nesting - 1
                        ELSE nesting,
                        Append(arg, t))
          ELSE [st |-> "ok", arg |-> arg, pos |-> pos]

\* A reader that stops at the first ',' or ')' whatever the nesting.
read_arg_flat(toks, pos) ==
    LET stops == { q \in pos..(Len(toks) - 1) :
                     At(toks, q).token \in {",", ")", "NEWLINE"} }
    IN  IF stops = {}
        THEN [st |-> "oob", arg |-> <<>>, pos |-> Len(toks)]
        ELSE LET q == CHOOSE x \in stops : \A y \in stops : x <= y
                 arg == [x \in 1..(q - pos) |-> At(toks, pos + x - 1)]
             IN  IF At(toks, q).token = "NEWLINE"
                 THEN [st |-> "fatal", arg |-> arg, pos |-> q]
                 ELSE [st |-> "ok",
                       arg |-> IF arg = <<>> THEN <<EmptyArg>> ELSE arg,
                       pos |-> q]

\* read_arg: the tokens of the next argument and the position of the
\* separator that ends it (*endptr).
read_arg(toks, pos) ==
    LET r == ReadArgLoop(toks, pos, 0, <<>>)
    IN  IF r.st = "ok" /\ Len(r.arg) = 0
        THEN [r EXCEPT !.arg = <<EmptyArg>>]
        ELSE r

\* The for loop of read_args from argument i on.
RECURSIVE ReadArgsLoop(_, _, _, _, _)
ReadArgsLoop(def, toks, pos, i, args) ==
    IF ~(i < def.params)
    THEN LET s == skip(toks, pos, ")")
         IN  [st |-> s.st, args |-> args, endptr |-> s.pos]
    ELSE LET a == read_arg(toks, pos)
         IN  IF a.st # "ok"
             THEN [st |-> a.st, args |-> args, endptr |-> a.pos]
             ELSE IF i < def.params - 1
             THEN LET s == skip(toks, a.pos, ",")
                  IN  IF s.st # "ok"
                      THEN [st |-> s.st, args |-> args, endptr |-> s.pos]
                      ELSE ReadArgsLoop(def, toks, s.pos, i + 1,
                                        Append(args, a.arg))
             ELSE ReadArgsLoop(def, toks, a.pos, i + 1, Append(args, a.arg))

\* read_args(def, list->data + pos, &endptr): the argument token lists and
\* the position after the invocation. No array for an object-like macro.
read_args(def, toks, pos) ==
    IF def.type = FUNCTION_LIKE
    THEN LET s == skip(toks, pos, "(")
         IN  IF s.st # "ok"
             THEN [st |-> s.st, args |-> <<>>, endptr |-> s.pos]
             ELSE ReadArgsLoop(def, toks, s.pos, 0, <<>>)
    ELSE [st |-> "ok", args |-> <<>>, endptr |-> pos]

(* ----------------------------- substitution ---------------------------- *)

is_macro_expanded_top(es, name) ==
    Len(es) > 0 /\ es[Len(es)] = name

\* is_macro_expanded: the name is on the expand stack es.
is_macro_expanded(es, name) ==
    \E i \in 1..Len(es) : es[i] = name

\* The loop of expand_macro over def->replacement from index i on
\* (lines 369-388). args are the argument token lists, strings the
\* stringified arguments. A token copied from the replacement list is
\* painted (ghost) when it names a macro on the expand stack es.
RECURSIVE SubstituteLoop(_, _, _, _, _, _)
SubstituteLoop(repl, args, strings, es, i, list) ==
    IF ~(i < Len(repl)) THEN list
    ELSE
      LET t == repl[i + 1]
      IN  IF t.token = "PARAM"
          THEN SubstituteLoop(repl, args, strings, es, i + 1,
                              list \o args[t.n + 1])
          ELSE IF /\ t.token = "#"
                  /\ i < Len(repl) - 1
                  /\ repl[i + 2].token = "PARAM"
          THEN SubstituteLoop(repl, args, strings, es, i + 2,
                              Append(list, strings[repl[i + 2].n + 1]))
          ELSE SubstituteLoop(repl, args, strings, es, i + 1,
                 Append(list,
                   [t EXCEPT !.painted =
                       t.token = "IDENTIFIER" /\ is_macro_expanded(es, t.d)]))

substitute(repl, args, strings, es) ==
    SubstituteLoop(repl, args, strings, es, 0, <<>>)

\* Lines 363-365: the first token of a pre-expanded argument gets leading
\* whitespace. On an array of no tokens the write goes to the unused slot
\* data[0] and changes no token of the argument.
force_leading_whitespace(toks) ==
    IF Len(toks) = 0 THEN toks
    ELSE IF toks[1].leading_whitespace = 0
    THEN [toks EXCEPT ![1].leading_whitespace = 1]
    ELSE toks

(* ------------------------------- splice -------------------------------- *)

\* array_replace_slice: list with [start, start + gaplength) replaced by
\* slice.
array_replace_slice(list, start, gaplength, slice) ==
    SubSeq(list, 1, start) \o slice
        \o SubSeq(list, start + gaplength + 1, Len(list))

\* A scan that goes back to the start of the spliced region.
scan_after_splice_start(i, expn) == i

\* Line 552: the scan index after the splice.
scan_after_splice(i, expn) == i + Len(expn)

\* Lines 543-545.
fix_leading_whitespace(expn, t) ==
    IF Len(expn) > 0
    THEN [expn EXCEPT ![1].leading_whitespace = t.leading_whitespace]
    ELSE expn

(* ----------------------------- macro table ----------------------------- *)

\* The macros the driver may define: [name, type, params, toks].
Macro(name, type, params, toks) ==
    [name |-> name, type |-> type, params |-> params, toks |-> toks]

NoDef == Macro("", OBJECT_LIKE, 0, <<>>)

\* The table entry made of a candidate and the array holding its body.
Entry(m, id) ==
    [name |-> m.name, type |-> m.type, params |-> m.params,
     replacement |-> [id |-> id, data |-> m.toks], stringify |-> FALSE]

\* The null pointer of a lookup that finds nothing.
NULL == Entry(NoDef, 0)

\* hash_lookup, hash_insert and hash_remove of the table.
hash_lookup(tb, name) == IF name \in DOMAIN tb THEN tb[name] ELSE NULL

hash_insert(tb, m) ==
    IF m.name \in DOMAIN tb THEN tb
    ELSE [x \in DOMAIN tb \cup {m.name} |->
             IF x = m.name THEN m ELSE tb[x]]

hash_remove(tb, name) == [x \in DOMAIN tb \ {name} |-> tb[x]]

\* definition: the stored macro or NULL. No modelled macro is __FILE__ or
\* __LINE__, so no replacement list is rewritten on lookup.
definition(tb, name) == hash_lookup(tb, name)

(* -------------------------- inputs of the driver ------------------------ *)

MacroDefs ==
    { Macro("A", OBJECT_LIKE, 0, <<Ident("B")>>),
      Macro("A", OBJECT_LIKE, 0, <<Ident("A")>>),
      Macro("B", OBJECT_LIKE, 0, <<Ident("A")>>),
      Macro("E", OBJECT_LIKE, 0, <<>>),
      Macro("G", OBJECT_LIKE, 0, <<Ident("F")>>),
      Macro("F", FUNCTION_LIKE, 1, <<Param(0)>>),
      Macro("F", FUNCTION_LIKE, 1, <<ParamW(0)>>),
      Macro("F", FUNCTION_LIKE, 2, <<Param(0), Param(1)>>),
      Macro("F", FUNCTION_LIKE, 1, <<Ident("F"), LP, Param(0), RP>>),
      Macro("CAT", FUNCTION_LIKE, 2, <<Param(0), TokenPaste, Param(1)>>),
      Macro("J", FUNCTION_LIKE, 2,
            <<Param(0), TokenPaste, Param(1), Ident("z")>>),
      Macro("STR", FUNCTION_LIKE, 1, <<Hash, Param(0)>>) }

Names == { m.name : m \in MacroDefs }

\* The token lines the driver may expand; each ends with NEWLINE.
Lines ==
    { <<Ident("A"), Newline>>,
      <<Ident("G"), LP, Num("1"), RP, Newline>>,
      <<Ident("F"), LP, Ident("F"), LP, Num("1"), RP, RP, Newline>>,
      <<Ident("CAT"), LP, Ident("x"), Comma, Ident("E"), RP, Newline>>,
      <<Ident("CAT"), LP, Ident("E"), Comma, Ident("x"), RP, Newline>>,
      <<Ident("CAT"), LP, Ident("x"), Comma, Num("1"), RP, Newline>>,
      <<Ident("J"), LP, Comma, RP, Newline>>,
      <<Ident("STR"), LP, Ident("A"), IdentW("B"), RP, Newline>>,
      <<Ident("F"), LP, Ident("E"), RP, Newline>>,
      <<Ident("F"), LP, RP, Newline>>,
      <<Ident("F"), LP, LP, Num("1"), Comma, Num("2"), RP, RP, Newline>>,
      <<Ident("F"), LP, Num("1"), Comma, Num("2"), RP, Newline>>,
      <<Ident("F"), LP, Num("1"), Comma, RP, Newline>>,
      <<Ident("F"), LP, Num("1"), Newline>>,
      <<Ident("F"), IdentW("A"), Newline>> }

(* ------------------------------- frames -------------------------------- *)

\* A frame of expand(list): the tokens of *list, the scan index i, and,
\* while an invocation found at i is expanded, endptr. role says whose
\* array list points to: "top" (the caller's), "arg" (args[k] of the frame
\* below) or "list" (the list of the frame below). spliced is a ghost: the
\* start and the length of the splice the last step made.
ExpandFrame(toks, role) ==
    [fn |-> "expand", list |-> toks, i |-> 0, endptr |-> 0, role |-> role,
     spliced |-> <<>>,
     def |-> NoDef, args |-> <<>>, raw |-> <<>>, argids |-> <<>>,
     strings |-> <<>>, stringsid |-> 0, listid |-> 0, pc |-> "scan",
     k |-> 0, subst |-> <<>>, tripped |-> FALSE]

\* A frame of expand_macro(def, args): args[k] are the argument arrays
\* (tokens and ids), strings and list the two arrays it acquires, pc the
\* step it is at, k the argument the pre-expansion loop is at. raw (the
\* arguments as read) and subst (the list before the paste pass) and tripped
\* (an assert of the paste pass was false) are ghosts.
MacroFrame(def, args, ids) ==
    [fn |-> "expand_macro", list |-> <<>>, i |-> 0, endptr |-> 0,
     role |-> "", spliced |-> <<>>,
     def |-> def, args |-> args, raw |-> args,
     argids |-> SubSeq(ids, 1, Len(args)),
     strings |-> <<>>, stringsid |-> ids[Len(args) + 1],
     listid |-> ids[Len(args) + 2], pc |-> "stringify",
     k |-> 0, subst |-> <<>>, tripped |-> FALSE]

Top == stack[Len(stack)]
Pop(st) == SubSeq(st, 1, Len(st) - 1)
SetTop(st, f) == [st EXCEPT ![Len(st)] = f]

NoCall ==
    [op |-> "none", m |-> NoDef, bound |-> FALSE, old |-> NULL,
     newid |-> 0]

(* -------------------------------- Init --------------------------------- *)

Init ==
    /\ table = [x \in {} |-> NoDef]
    /\ arrays = <<>>
    /\ nalloc = 0
    /\ expand_stack = <<>>
    /\ stack = <<>>
    /\ L = <<>>
    /\ status = "idle"
    /\ err = ""
    /\ last = NoCall
    /\ calls = 0
    /\ oob = FALSE
    /\ ndebug = "unknown"

(* ------------------------- define and undef ---------------------------- *)

\* A define that releases the body it was given whenever it succeeds.
define_release(tb, pl, macro) ==
    LET tb1 == hash_insert(tb, macro)
        ref == tb1[macro.name]
    IN  IF macrocmp(ref, macro) # 0
        THEN [fatal |-> TRUE, table |-> tb1, arrays |-> pl]
        ELSE [fatal |-> FALSE,
              table |-> [tb1 EXCEPT ![macro.name].stringify =
                            has_stringify_replacement(ref.replacement.data)],
              arrays |-> release_token_array(pl, macro.replacement.id)]

\* define(macro) on table tb and pool pl, macro.replacement being array id:
\* fatal says that the redefinition error was raised.
define(tb, pl, macro) ==
    LET new_macro_added == macro.name \notin DOMAIN tb
        tb1 == hash_insert(tb, macro)
        ref == tb1[macro.name]
    IN  IF macrocmp(ref, macro) # 0
        THEN [fatal |-> TRUE, table |-> tb1, arrays |-> pl]
        ELSE [fatal |-> FALSE,
              table |-> [tb1 EXCEPT ![macro.name].stringify =
                            has_stringify_replacement(ref.replacement.data)],
              arrays |-> IF ~new_macro_added
                         THEN release_token_array(pl, macro.replacement.id)
                         ELSE pl]

\* The driver defines m: the body is put in an array of the pool (as parse
\* does for register_macro) and handed to define.
Define(m) ==
    /\ status = "idle"
    /\ calls < MaxCalls
    /\ LET g == get_token_array(arrays, nalloc)
           macro == Entry(m, g.id)
           r == define(table, g.arrays, macro)
       IN  /\ table' = r.table
           /\ arrays' = r.arrays
           /\ nalloc' = g.nalloc
           /\ status' = IF r.fatal THEN "fatal" ELSE "idle"
           /\ err' = IF r.fatal THEN "redefinition" ELSE err
           /\ last' = [op |-> "define", m |-> m,
                       bound |-> m.name \in DOMAIN table,
                       old |-> IF m.name \in DOMAIN table
                               THEN table[m.name] ELSE NULL,
                       newid |-> g.id]
    /\ calls' = calls + 1
    /\ UNCHANGED <<expand_stack, stack, L, oob, ndebug>>

\* undef(name): hash_remove, and macro_hash_del on the entry removed.
undef(tb, pl, name) ==
    IF name \in DOMAIN tb
    THEN [table |-> hash_remove(tb, name),
          arrays |-> release_token_array(pl, tb[name].replacement.id)]
    ELSE [table |-> tb, arrays |-> pl]

Undef(name) ==
    /\ status = "idle"
    /\ calls < MaxCalls
    /\ LET r == undef(table, arrays, name)
       IN  /\ table' = r.table
           /\ arrays' = r.arrays
           /\ last' = [NoCall EXCEPT !.op = "undef",
                          !.bound = name \in DOMAIN table,
                          !.old = IF name \in DOMAIN table
                                  THEN table[name] ELSE NULL]
    /\ calls' = calls + 1
    /\ UNCHANGED <<nalloc, expand_stack, stack, L, status, err, oob, ndebug>>

(* ------------------------------- expand -------------------------------- *)

\* The driver calls expand on a line.
Expand(line) ==
    /\ status = "idle"
    /\ calls < MaxCalls
    /\ stack' = <<ExpandFrame(line, "top")>>
    /\ L' = line
    /\ status' = "running"
    /\ last' = [NoCall EXCEPT !.op = "expand"]
    /\ oob' = FALSE
    /\ calls' = calls + 1
    /\ UNCHANGED <<table, arrays, nalloc, expand_stack, err, ndebug>>

Scanning ==
    /\ status = "running"
    /\ Len(stack) > 0
    /\ Top.fn = "expand"
    /\ Top.i < Len(Top.list)

\* Lines 527-535 for the token at the scan index of frame f: the macro it
\* names, when that macro is defined and not being expanded.
ScanDef(f) ==
    LET t == At(f.list, f.i)
        def == IF t.token = "IDENTIFIER"
               THEN definition(table, t.d) ELSE NULL
    IN  IF def # NULL /\ ~is_macro_expanded(expand_stack, def.name)
        THEN def ELSE NULL

\* Line 536 reads list[i + 1] for a function-like macro only.
Looks(f) == ScanDef(f) # NULL /\ ScanDef(f).type = FUNCTION_LIKE

\* What array_get(list, i + 1).token == '(' may yield: the token decides
\* inside the array; outside, the read is undefined and may yield either.
ParenAhead(f) ==
    IF InBounds(f.list, f.i + 1)
    THEN {At(f.list, f.i + 1).token = "("}
    ELSE BOOLEAN

\* The token is not expanded: i++ (line 557).
ExpandSkip ==
    /\ Scanning
    /\ \/ ScanDef(Top) = NULL
       \/ Looks(Top) /\ FALSE \in ParenAhead(Top)
    /\ stack' = SetTop(stack, [Top EXCEPT !.i = Top.i + 1,
                                          !.spliced = <<>>])
    /\ oob' = (oob \/ (Looks(Top) /\ ~InBounds(Top.list, Top.i + 1)))
    /\ UNCHANGED <<table, arrays, nalloc, expand_stack, L, status, err,
                   last, calls, ndebug>>

Invokes(f) ==
    /\ ScanDef(f) # NULL
    /\ Looks(f) => TRUE \in ParenAhead(f)

\* read_args raises a fatal error (lines 538, 405-410, 428-440).
ExpandReadFatal ==
    /\ Scanning
    /\ Invokes(Top)
    /\ read_args(ScanDef(Top), Top.list, Top.i + 1).st = "fatal"
    /\ status' = "fatal"
    /\ err' = "read_args"
    /\ UNCHANGED <<table, arrays, nalloc, expand_stack, stack, L, last,
                   calls, oob, ndebug>>

\* The argument reader runs past the end of the array: what the process
\* does from here on is undefined.
ExpandReadOutside ==
    /\ Scanning
    /\ Invokes(Top)
    /\ read_args(ScanDef(Top), Top.list, Top.i + 1).st = "oob"
    /\ status' = "ub"
    /\ oob' = TRUE
    /\ UNCHANGED <<table, arrays, nalloc, expand_stack, stack, L, err, last,
                   calls, ndebug>>

\* Lines 538-539 and 349-353: the arguments are read into arrays of the
\* pool, expand_macro is entered, acquires strings and list and pushes the
\* name of the macro on the expand stack.
ExpandInvoke ==
    /\ Scanning
    /\ Invokes(Top)
    /\ Len(stack) < MaxDepth
    /\ LET def == ScanDef(Top)
           ra == read_args(def, Top.list, Top.i + 1)
           g == GetArrays(arrays, nalloc, Len(ra.args) + 2)
       IN  /\ ra.st = "ok"
           /\ stack' = Append(
                  SetTop(stack, [Top EXCEPT !.endptr = ra.endptr,
                                            !.spliced = <<>>]),
                  MacroFrame(def, ra.args, g.ids))
           /\ arrays' = g.arrays
           /\ nalloc' = g.nalloc
           /\ expand_stack' = Append(expand_stack, def.name)
    /\ UNCHANGED <<table, L, status, err, last, calls, oob, ndebug>>

\* The arrays expand writes its result to.
write_arg(parent, toks) ==
    [parent EXCEPT !.args[parent.k + 1] = force_leading_whitespace(toks),
                   !.k = parent.k + 1]
write_list(parent, toks) == [parent EXCEPT !.list = toks, !.pc = "pop"]

\* expand returns (line 526 is false). The caller goes on: the driver
\* (role "top"), the pre-expansion loop at lines 363-366 (role "arg") or
\* expand_macro at line 392 (role "list").
ExpandReturn ==
    /\ status = "running"
    /\ Len(stack) > 0
    /\ Top.fn = "expand"
    /\ ~(Top.i < Len(Top.list))
    /\ IF Top.role = "top"
       THEN /\ stack' = <<>>
            /\ L' = Top.list
            /\ status' = "idle"
       ELSE /\ stack' =
                 LET below == Pop(stack)
                     parent == below[Len(below)]
                 IN  SetTop(below,
                            IF Top.role = "arg"
                            THEN write_arg(parent, Top.list)
                            ELSE write_list(parent, Top.list))
            /\ UNCHANGED <<L, status>>
    /\ UNCHANGED <<table, arrays, nalloc, expand_stack, err, last, calls,
                   oob, ndebug>>

(* ----------------------------- expand_macro ---------------------------- *)

InMacro(pc) ==
    /\ status = "running"
    /\ Len(stack) > 0
    /\ Top.fn = "expand_macro"
    /\ Top.pc = pc

\* Lines 354-360 on the arguments as they are now.
stringify_args(def, args) ==
    IF def.params > 0 /\ def.stringify
    THEN [i \in 1..def.params |-> stringify(args[i])]
    ELSE <<>>

MacroStringify ==
    /\ InMacro("stringify")
    /\ stack' = SetTop(stack,
          [Top EXCEPT !.strings = stringify_args(Top.def, Top.args),
                      !.pc = "preexpand"])
    /\ UNCHANGED <<table, arrays, nalloc, expand_stack, L, status, err,
                   last, calls, oob, ndebug>>

\* Line 362: expand(&args[k]).
MacroPreExpand ==
    /\ InMacro("preexpand")
    /\ Top.k < Top.def.params
    /\ Len(stack) < MaxDepth
    /\ stack' = Append(stack, ExpandFrame(Top.args[Top.k + 1], "arg"))
    /\ UNCHANGED <<table, arrays, nalloc, expand_stack, L, status, err,
                   last, calls, oob, ndebug>>

\* Lines 369-388.
MacroSubstitute ==
    /\ InMacro("preexpand")
    /\ ~(Top.k < Top.def.params)
    /\ LET list == substitute(Top.def.replacement.data, Top.args,
                              Top.strings, expand_stack)
       IN  stack' = SetTop(stack, [Top EXCEPT !.list = list,
                                              !.subst = list,
                                              !.pc = "paste"])
    /\ UNCHANGED <<table, arrays, nalloc, expand_stack, L, status, err,
                   last, calls, oob, ndebug>>

\* The builds the paste pass may run in: with asserts, or without them.
Builds == IF ndebug = "yes" THEN {TRUE} ELSE BOOLEAN

\* Line 390, the pass ends.
MacroPaste ==
    /\ InMacro("paste")
    /\ \E nd \in Builds :
          LET o == expand_paste_operators(Top.list, nd)
          IN  /\ o.st = "ok"
              /\ stack' = SetTop(stack, [Top EXCEPT !.list = o.list,
                                                    !.tripped = o.tripped,
                                                    !.pc = "rescan"])
              /\ ndebug' = IF o.tripped THEN "yes" ELSE ndebug
    /\ UNCHANGED <<table, arrays, nalloc, expand_stack, L, status, err,
                   last, calls, oob>>

\* Line 390, the pass ends the process: a fatal error, a failed assert, or
\* a read at index UINT_MAX.
MacroPasteStop ==
    /\ InMacro("paste")
    /\ \E nd \in Builds :
          LET o == expand_paste_operators(Top.list, nd)
          IN  /\ o.st # "ok"
              /\ status' = o.st
              /\ err' = IF o.st = "fatal" THEN "paste" ELSE err
              /\ oob' = (oob \/ o.st = "ub")
              /\ stack' = SetTop(stack, [Top EXCEPT !.tripped = o.tripped])
              /\ ndebug' = IF o.tripped /\ nd THEN "yes" ELSE ndebug
    /\ UNCHANGED <<table, arrays, nalloc, expand_stack, L, last, calls>>

\* Line 391: expand(&list).
MacroRescan ==
    /\ InMacro("rescan")
    /\ Len(stack) < MaxDepth
    /\ stack' = Append(SetTop(stack, [Top EXCEPT !.pc = "rescanning"]),
                       ExpandFrame(Top.list, "list"))
    /\ UNCHANGED <<table, arrays, nalloc, expand_stack, L, status, err,
                   last, calls, oob, ndebug>>

pop_nothing(es) == es

\* Line 392.
array_pop_back(es) == SubSeq(es, 1, Len(es) - 1)

\* Lines 392-399 and 540-554: the name is popped, the argument arrays and
\* strings are released, expand_macro returns list; expand splices it in
\* at i, moves i and releases it.
MacroReturn ==
    /\ InMacro("pop")
    /\ LET m == Top
           below == Pop(stack)
           f == below[Len(below)]
           t == At(f.list, f.i)
           size == f.endptr - f.i
           expn == fix_leading_whitespace(m.list, t)
       IN  /\ expand_stack' = array_pop_back(expand_stack)
           /\ arrays' = release_token_array(
                            release_token_array(
                                ReleaseAll(arrays, m.argids), m.stringsid),
                            m.listid)
           /\ stack' = SetTop(below,
                  [f EXCEPT !.list = array_replace_slice(f.list, f.i, size,
                                                         expn),
                            !.i = scan_after_splice(f.i, expn),
                            !.spliced = <<f.i, Len(expn)>>])
    /\ UNCHANGED <<table, nalloc, L, status, err, last, calls, oob, ndebug>>

(* ------------------------------ the system ----------------------------- *)

Step ==
    \/ ExpandSkip
    \/ ExpandReadFatal
    \/ ExpandReadOutside
    \/ ExpandInvoke
    \/ ExpandReturn
    \/ MacroStringify
    \/ MacroPreExpand
    \/ MacroSubstitute
    \/ MacroPaste
    \/ MacroPasteStop
    \/ MacroRescan
    \/ MacroReturn

Next ==
    \/ \E m \in MacroDefs : Define(m)
    \/ \E name \in Names : Undef(name)
    \/ \E line \in Lines : Expand(line)
    \/ Step

Spec == Init /\ [][Next]_vars

(* ======================= properties of the engine ====================== *)

MacroFrames == { p \in 1..Len(stack) : stack[p].fn = "expand_macro" }
ExpandFrames == { p \in 1..Len(stack) : stack[p].fn = "expand" }

Returned == status = "idle" /\ last.op = "expand"

Kinds(toks) == { toks[k].token : k \in 1..Len(toks) }

\* An identifier of toks at k that names a macro of the table which would be
\* replaced were toks scanned again: an object-like macro, or a function-like
\* macro followed by '('.
Replaceable(toks, k) ==
    /\ toks[k].token = "IDENTIFIER"
    /\ toks[k].d \in DOMAIN table
    /\ \/ table[toks[k].d].type = OBJECT_LIKE
       \/ k < Len(toks) /\ toks[k + 1].token = "("

\* C1: when expand(L) has returned (and every read stayed inside its array),
\* no token of L is an identifier naming a defined macro that the scan
\* would replace, except identifiers copied from a replacement list while
\* their name was disabled.
C1_NoMacroLeft ==
    (Returned /\ ~oob) =>
        \A k \in 1..Len(L) : Replaceable(L, k) => L[k].painted

\* C2: when expand(L) has returned, L holds no '##' and no PARAM token.
C2_NoPasteNoParam ==
    (Returned /\ ~oob) => Kinds(L) \cap {"TOKEN_PASTE", "PARAM"} = {}

\* The names on the expand stack are pairwise different and are names of
\* defined macros, so the Substituter nests at most as deep as there are
\* macros.
DepthBounded ==
    /\ \A a, b \in 1..Len(expand_stack) :
          expand_stack[a] = expand_stack[b] => a = b
    /\ Cardinality(MacroFrames) <= Cardinality(DOMAIN table)

\* The work left in frame p: for expand the tokens not yet scanned, for
\* expand_macro the steps not yet taken; a frame waiting for a call it made
\* counts less than the frame before the call.
Work(st, p) ==
    LET f == st[p]
        waiting == IF p < Len(st) THEN 0 ELSE 1
    IN  IF f.fn = "expand" THEN 2 * (Len(f.list) - f.i) + waiting
        ELSE IF f.pc = "stringify" THEN 2 * f.def.params + 5
        ELSE IF f.pc = "preexpand"
        THEN 2 * (f.def.params - f.k) + 3 + waiting
        ELSE IF f.pc = "paste" THEN 3
        ELSE IF f.pc = "rescan" THEN 2
        ELSE IF f.pc = "rescanning" THEN 1
        ELSE 0

Rank(st) == [p \in 1..Len(st) |-> Work(st, p)]

\* r2 comes before r1 in the lexicographic order, bottom frame first.
RankLess(r2, r1) ==
    \E j \in 1..Min(Len(r1), Len(r2)) :
        /\ r2[j] < r1[j]
        /\ \A h \in 1..(j - 1) : r2[h] = r1[h]

\* C3: expand terminates, also for self-referential and mutually recursive
\* macros: the nesting depth of expand_macro never exceeds the number of
\* defined macros, and every step of a running expand lowers the rank of the
\* call stack, a sequence of naturals of bounded length.
C3_Terminates ==
    /\ []DepthBounded
    /\ [][(status = "running" /\ status' = "running")
            => RankLess(Rank(stack'), Rank(stack))]_vars

\* A self-referential and a mutually recursive expansion have returned.
C3_Witness ==
    /\ Returned
    /\ "A" \in DOMAIN table
    /\ Len(L) = 2
    /\ L[1].d = "A"
    /\ L[1].painted

\* Equality of tokens and of macros as the redefinition rule states it.
TokenEqual(a, b) == a.token = b.token /\ a.n = b.n /\ a.d = b.d

MacroEqual(stored, m) ==
    /\ stored.type = m.type
    /\ stored.params = m.params
    /\ stored.name = m.name
    /\ Len(stored.replacement.data) = Len(m.toks)
    /\ \A i \in 1..Len(m.toks) :
          TokenEqual(stored.replacement.data[i], m.toks[i])

InPool(id) == \E k \in 1..Len(arrays) : arrays[k] = id

\* C4: define(m) of a bound name succeeds iff m equals the stored
\* definition; then the entry keeps the stored body and the new body is in
\* the pool; otherwise the redefinition error is raised. define(m) of an
\* unbound name inserts m.
C4_Define ==
    last.op = "define" =>
        LET m == last.m
        IN  IF last.bound
            THEN /\ (status # "fatal") <=> MacroEqual(last.old, m)
                 /\ status = "fatal" => err = "redefinition"
                 /\ m.name \in DOMAIN table
                 /\ table[m.name].replacement = last.old.replacement
                 /\ status # "fatal" =>
                       /\ InPool(last.newid)
                       /\ last.newid # table[m.name].replacement.id
            ELSE /\ status # "fatal"
                 /\ m.name \in DOMAIN table
                 /\ MacroEqual(table[m.name], m)
                 /\ table[m.name].replacement =
                        [id |-> last.newid, data |-> m.toks]
                 /\ ~InPool(last.newid)

\* An equal redefinition whose body differs from the stored one in its
\* whitespace has succeeded.
C4_Witness ==
    /\ last.op = "define"
    /\ last.bound
    /\ status = "idle"
    /\ table[last.m.name].replacement.data # last.m.toks

MacroIndex(p) == Cardinality({ q \in MacroFrames : q <= p })

AfterStringify == {"preexpand", "paste", "rescan", "rescanning", "pop"}
AfterSubstitute == {"paste", "rescan", "rescanning", "pop"}

\* C6: every expand_macro invocation has its name on the expand stack from
\* its entry to its return (the expand stack lists exactly the running
\* invocations); the strings are made of the arguments as read at the call
\* site, before any of them is pre-expanded; every argument is pre-expanded
\* before the substitution; the paste pass runs on the substituted list, and
\* the rescan on the pasted list.
C6_SubstituterOrder ==
    /\ Len(expand_stack) = Cardinality(MacroFrames)
    /\ \A p \in MacroFrames :
          LET f == stack[p]
              idx == MacroIndex(p)
              n == f.def.params
          IN  /\ expand_stack[idx] = f.def.name
              /\ f.pc = "stringify" => (f.args = f.raw /\ f.k = 0)
              /\ f.pc \in AfterStringify =>
                    f.strings = IF n > 0 /\ f.def.stringify
                                THEN [i \in 1..n |-> stringify(f.raw[i])]
                                ELSE <<>>
              /\ f.pc = "preexpand" =>
                    \A j \in (f.k + 1)..n : f.args[j] = f.raw[j]
              /\ f.pc \in AfterSubstitute =>
                    /\ f.k = n
                    /\ f.subst = substitute(f.def.replacement.data, f.args,
                                     f.strings, SubSeq(expand_stack, 1, idx))
              /\ f.pc = "paste" => f.list = f.subst
              /\ f.pc \in {"rescan", "rescanning"} =>
                    \E nd \in BOOLEAN :
                        f.list = expand_paste_operators(f.subst, nd).list
              /\ f.pc = "rescanning" =>
                    /\ p < Len(stack)
                    /\ stack[p + 1].fn = "expand"
                    /\ stack[p + 1].role = "list"

\* An invocation about to return whose argument was changed by the
\* pre-expansion and whose string shows the argument as written.
C6_Witness ==
    \E p \in MacroFrames :
        /\ stack[p].def.stringify
        /\ stack[p].pc = "pop"
        /\ stack[p].args # stack[p].raw
        /\ stack[p].strings[1] # stringify(stack[p].args[1])
        /\ stack[p].list = <<stack[p].strings[1]>>

\* The number of owners of array id: places in the pool, bodies of table
\* entries, and arrays held by the running expand_macro invocations.
Owners(id) ==
    Cardinality({ k \in 1..Len(arrays) : arrays[k] = id })
    + Cardinality({ x \in DOMAIN table : table[x].replacement.id = id })
    + Cardinality(UNION { { <<p, j>> : j \in { x \in 1..Len(stack[p].argids) :
                                                 stack[p].argids[x] = id } } :
                          p \in MacroFrames })
    + Cardinality({ p \in MacroFrames : stack[p].stringsid = id })
    + Cardinality({ p \in MacroFrames : stack[p].listid = id })

\* C7: while no fatal error was raised every token array has exactly one
\* owner: the pool (once), one table entry, or one running invocation.
C7_OneOwner ==
    status \in {"idle", "running"} =>
        \A id \in 1..nalloc : Owners(id) = 1

\* An expand of a function-like macro has returned: the arrays it acquired
\* are back in the pool, the bodies are in the table.
C7_Witness ==
    /\ Returned
    /\ DOMAIN table # {}
    /\ Len(arrays) >= 4
    /\ L # <<>>
    /\ L[1].token # "IDENTIFIER"

(* ------------ the argument reader against the invocation's text -------- *)

\* The nesting depth of position q inside the parentheses opened at open.
DepthAt(toks, open, q) ==
    Cardinality({ x \in (open + 1)..(q - 1) : At(toks, x).token = "(" })
    - Cardinality({ x \in (open + 1)..(q - 1) : At(toks, x).token = ")" })

Closers(toks, open) ==
    { q \in (open + 1)..(Len(toks) - 1) :
         At(toks, q).token = ")" /\ DepthAt(toks, open, q) = 0 }

Least(S) == CHOOSE x \in S : \A y \in S : x <= y

\* The ')' that closes the invocation, and the first NEWLINE after '('.
Close(toks, open) == Least(Closers(toks, open))
FirstNewline(toks, open) ==
    Least({ q \in (open + 1)..(Len(toks) - 1) :
              At(toks, q).token = "NEWLINE" })

Commas0(toks, open) ==
    { q \in (open + 1)..(Close(toks, open) - 1) :
         At(toks, q).token = "," /\ DepthAt(toks, open, q) = 0 }

\* The k-th separator at depth zero; the 0-th is the '('.
Sep(toks, open, k) ==
    IF k = 0 THEN open
    ELSE LET S == Commas0(toks, open) \cup {Close(toks, open)}
         IN  CHOOSE x \in S : Cardinality({ y \in S : y < x }) = k - 1

Between(toks, a, b) == [x \in 1..(b - a - 1) |-> At(toks, a + x)]

\* The invocations the reader must reject.
BadInvocation(def, toks, open) ==
    \/ ~(\E c \in Closers(toks, open) : c < FirstNewline(toks, open))
    \/ def.params >= 1
         /\ Cardinality(Commas0(toks, open)) # def.params - 1
    \/ def.params = 0 /\ At(toks, open + 1).token # ")"

NewlineTerminated(toks) ==
    Len(toks) > 0 /\ toks[Len(toks)].token = "NEWLINE"

\* The invocations of function-like macros read in a list that ends with
\* NEWLINE: the frames of expand_macro above such a list.
ReadInvocations ==
    { p \in MacroFrames :
        /\ stack[p].def.type = FUNCTION_LIKE
        /\ NewlineTerminated(stack[p - 1].list) }

\* The reader rejects exactly the bad invocations, returns n arrays and
\* leaves endptr after the closing ')'.
ReaderFrame(p) ==
    LET toks == stack[p - 1].list
        open == stack[p - 1].i + 1
    IN  /\ ~BadInvocation(stack[p].def, toks, open)
        /\ Len(stack[p].raw) = stack[p].def.params
        /\ stack[p - 1].endptr = Close(toks, open) + 1

ReaderRejects ==
    (status = "fatal" /\ err = "read_args"
        /\ NewlineTerminated(Top.list)) =>
        BadInvocation(ScanDef(Top), Top.list, Top.i + 1)

\* C8 as stated: argument k is exactly the tokens between the k-th and the
\* (k+1)-th separator at depth zero.
C8_ArgsAreTheTokensBetween ==
    /\ ReaderRejects
    /\ \A p \in ReadInvocations :
          /\ ReaderFrame(p)
          /\ \A k \in 1..stack[p].def.params :
                stack[p].raw[k] =
                    Between(stack[p - 1].list,
                            Sep(stack[p - 1].list, stack[p - 1].i + 1, k - 1),
                            Sep(stack[p - 1].list, stack[p - 1].i + 1, k))

\* C8: argument k is the tokens between the k-th and the (k+1)-th separator
\* at depth zero, or the single token EMPTY_ARG when there is none.
C8_ArgsOrEmptyArg ==
    /\ ReaderRejects
    /\ \A p \in ReadInvocations :
          /\ ReaderFrame(p)
          /\ \A k \in 1..stack[p].def.params :
                LET b == Between(stack[p - 1].list,
                            Sep(stack[p - 1].list, stack[p - 1].i + 1, k - 1),
                            Sep(stack[p - 1].list, stack[p - 1].i + 1, k))
                IN  stack[p].raw[k] = IF b = <<>> THEN <<EmptyArg>> ELSE b

\* An argument with a comma inside parentheses has been read.
C8_Witness ==
    \E p \in ReadInvocations :
        /\ stack[p].def.params = 1
        /\ Len(stack[p].raw[1]) = 5
        /\ stack[p].raw[1][3].token = ","

\* C9: every argument array of a running expand_macro holds a token.
C9_ArgsNonEmpty ==
    \A p \in MacroFrames :
        \A j \in 1..Len(stack[p].args) : Len(stack[p].args[j]) >= 1

(* ------------------- the paste pass against its algorithm -------------- *)

\* The two-cursor algorithm: write cursor i, read cursor j, cut to i + 1.
\* A pair that vanished at i = 0 leaves no left operand; the next paste
\* then has the placemarker EMPTY_ARG for it.
RECURSIVE TwoCursor(_, _, _)
TwoCursor(Lst, i, j) ==
    IF j >= Len(Lst) THEN SubSeq(Lst, 1, Min(i + 1, Len(Lst)))
    ELSE IF Lst[j + 1].token = "TOKEN_PASTE"
    THEN LET l == IF i >= 0 THEN Lst[i + 1] ELSE EmptyArg
             r == Lst[j + 2]
         IN  IF l.token = "EMPTY_ARG" /\ r.token = "EMPTY_ARG"
             THEN TwoCursor(Lst, i - 1, j + 2)
             ELSE LET w == IF i >= 0 THEN i ELSE 0
                  IN  TwoCursor([Lst EXCEPT ![w + 1] = paste(l, r).tok],
                                w, j + 2)
    ELSE IF Lst[j + 1].token # "EMPTY_ARG"
    THEN IF i + 1 < j
         THEN TwoCursor([Lst EXCEPT ![i + 2] = Lst[j + 1]], i + 1, j + 1)
         ELSE TwoCursor(Lst, i + 1, j + 1)
    ELSE TwoCursor(Lst, i, j + 1)

NoEdgePaste(Lst) ==
    Len(Lst) > 0 =>
        (Lst[1].token # "TOKEN_PASTE" /\ Lst[Len(Lst)].token # "TOKEN_PASTE")

\* C10: on a list with no '##' at either end the paste pass leaves the list
\* the two-cursor algorithm leaves, and assert(i < len) never fails.
C10_PasteAsTwoCursor ==
    \A p \in MacroFrames :
        /\ ~stack[p].tripped
        /\ (stack[p].pc = "rescan" /\ NoEdgePaste(stack[p].subst)) =>
              stack[p].list = TwoCursor(stack[p].subst, 0, 1)

(* ---------------------- reads inside the scanned array ----------------- *)

\* C11: during expand no token is read at an index at or after the length
\* of the array being scanned: the look-ahead list[i + 1] made for a
\* function-like macro name lies inside the array, and the argument reader
\* started at i + 1 ends inside it.
C11_ReadsInside ==
    Scanning =>
        /\ Looks(Top) => InBounds(Top.list, Top.i + 1)
        /\ Invokes(Top) =>
              read_args(ScanDef(Top), Top.list, Top.i + 1).st # "oob"

====
